---------------------------- MODULE Spec2Model ----------------------------
(***************************************************************************)
(* A model of codepen-puppeteer: run() and its helpers download(),         *)
(* saveIndex() and titleToFilename().                                      *)
(*                                                                         *)
(* A JavaScript string is a sequence of lexemes.  A lexeme is a one        *)
(* character TLA+ string ("a", " ", "-"), or a longer literal that the     *)
(* code writes as one piece ('.html', '</a>', '{{list}}').                 *)
(***************************************************************************)
EXTENDS Integers, Sequences, FiniteSets, TLC

VARIABLES
    args,       \* the parameters of run(): links, startPage, endPage, debug
    web,        \* what the site answers: search page number -> links
    disk,       \* the files of pensPath: filename -> content
    pc,         \* the position of the run in run() / download()
    browser,    \* "none", "open" or "closed"
    page,       \* params.page
    links,      \* the links being downloaded (NULL before the first batch)
    k,          \* the position of `for (var pen of links)`
    pens,       \* the pens collection of run()
    content,    \* var content of download()
    resources,  \* var resources of download()
    hist,       \* what this run did so far: every operation with its outcome
    disk0,      \* the files of pensPath when this run started
    prev,       \* the hist of the run before this one on the same pensPath
    runNo,      \* how many times run() was started on this pensPath
    fnIn,       \* the argument of the pure function under check
    fnOut,      \* its results
    fnPc        \* the position of the pure function's check

vars == <<args, web, disk, pc, browser, page, links, k, pens, content,
          resources, hist, disk0, prev, runNo, fnIn, fnOut, fnPc>>

runVars == <<args, web, disk, pc, browser, page, links, k, pens, content,
             resources, hist, disk0, prev, runNo>>

fnVars == <<fnIn, fnOut, fnPc>>

\* a value that may be null: null itself, or the array a
NULL == [null |-> TRUE, items |-> <<>>]
Array(a) == [null |-> FALSE, items |-> a]

-----------------------------------------------------------------------------
(* Characters *)

LowerCase == <<"a","b","c","d","e","f","g","h","i","j","k","l","m",
               "n","o","p","q","r","s","t","u","v","w","x","y","z">>

UpperCase == <<"A","B","C","D","E","F","G","H","I","J","K","L","M",
               "N","O","P","Q","R","S","T","U","V","W","X","Y","Z">>

Digits == {"0","1","2","3","4","5","6","7","8","9"}

Range(f) == {f[i] : i \in DOMAIN f}

\* what String.prototype.trim removes
WhiteSpace == {" ", "\t", "\n"}

\* the class [a-z0-9] under the flag i
AlphaNum == Range(LowerCase) \cup Range(UpperCase) \cup Digits

\* String.prototype.toLowerCase, one character
LowerChar(c) ==
    IF c \in Range(UpperCase)
    THEN LowerCase[CHOOSE i \in DOMAIN UpperCase : UpperCase[i] = c]
    ELSE c

-----------------------------------------------------------------------------
(* String.prototype methods used by titleToFilename *)

RECURSIVE TrimStart(_)
TrimStart(s) ==
    IF s # <<>> /\ Head(s) \in WhiteSpace THEN TrimStart(Tail(s)) ELSE s

RECURSIVE TrimEnd(_)
TrimEnd(s) ==
    IF s # <<>> /\ s[Len(s)] \in WhiteSpace
    THEN TrimEnd(SubSeq(s, 1, Len(s) - 1))
    ELSE s

\* .trim()
Trim(s) == TrimEnd(TrimStart(s))

\* the same without the flag i: .replace(/[^a-z0-9]/g, '-')
ReplaceNonLower(s) ==
    [i \in 1..Len(s) |->
        IF s[i] \in Range(LowerCase) \cup Digits THEN s[i] ELSE "-"]

\* .replace(/[^a-z0-9]/gi, '-')
ReplaceNonAlnum(s) ==
    [i \in 1..Len(s) |-> IF s[i] \in AlphaNum THEN s[i] ELSE "-"]

\* the same with pairs for runs: .replace(/--/g, '-')
RECURSIVE CollapsePairs(_)
CollapsePairs(s) ==
    IF Len(s) < 2 THEN s
    ELSE IF s[1] = "-" /\ s[2] = "-"
    THEN <<"-">> \o CollapsePairs(SubSeq(s, 3, Len(s)))
    ELSE <<s[1]>> \o CollapsePairs(Tail(s))

\* .replace(/-+/g, '-')
RECURSIVE CollapseDashes(_)
CollapseDashes(s) ==
    IF Len(s) < 2 THEN s
    ELSE IF s[1] = "-" /\ s[2] = "-" THEN CollapseDashes(Tail(s))
    ELSE <<s[1]>> \o CollapseDashes(Tail(s))

\* the same without the flag g: .replace(/-$|^-/, ''), the first match only
StripFirstEdgeDash(s) ==
    IF s # <<>> /\ s[1] = "-" THEN Tail(s)
    ELSE IF s # <<>> /\ s[Len(s)] = "-" THEN SubSeq(s, 1, Len(s) - 1)
    ELSE s

\* .replace(/-$|^-/g, ''): a '-' at the start and a '-' at the end go
StripEdgeDashes(s) ==
    LET a == IF s # <<>> /\ s[1] = "-" THEN 2 ELSE 1
        b == IF Len(s) >= a /\ s[Len(s)] = "-" THEN Len(s) - 1 ELSE Len(s)
    IN  SubSeq(s, a, b)

\* .toLowerCase()
ToLowerCase(s) == [i \in 1..Len(s) |-> LowerChar(s[i])]

titleToFilename(string) ==
    Trim(ToLowerCase(StripEdgeDashes(CollapseDashes(ReplaceNonAlnum(Trim(string))))))


-----------------------------------------------------------------------------
(* String.prototype.replace with a string pattern, and the templates *)

\* the replacement text of .replace(pattern, replacement): $$ is a '$', $& the
\* match, $` the text before the match and $' the text after it
RECURSIVE GetSubstitution(_, _, _, _)
GetSubstitution(replacement, matched, before, after) ==
    IF replacement = <<>> THEN <<>>
    ELSE IF Len(replacement) >= 2 /\ replacement[1] = "$"
              /\ replacement[2] \in {"$", "&", "`", "'"}
    THEN (CASE replacement[2] = "$" -> <<"$">>
            [] replacement[2] = "&" -> <<matched>>
            [] replacement[2] = "`" -> before
            [] replacement[2] = "'" -> after)
         \o GetSubstitution(SubSeq(replacement, 3, Len(replacement)),
                            matched, before, after)
    ELSE <<replacement[1]>>
         \o GetSubstitution(Tail(replacement), matched, before, after)

\* str.replace(pattern, replacement): the first occurrence only
JsReplace(str, pattern, replacement) ==
    IF \E i \in 1..Len(str) : str[i] = pattern
    THEN LET i == CHOOSE j \in 1..Len(str) :
                      /\ str[j] = pattern
                      /\ \A h \in 1..(j - 1) : str[h] # pattern
             before == SubSeq(str, 1, i - 1)
             after == SubSeq(str, i + 1, Len(str))
         IN  before \o GetSubstitution(replacement, pattern, before, after)
                    \o after
    ELSE str

\* the same, the elements taken last to first
RECURSIVE MapJoinReversed(_, _, _, _)
MapJoinReversed(array, open, close, sep) ==
    IF array = <<>> THEN <<>>
    ELSE IF Len(array) = 1 THEN open \o array[1] \o close
    ELSE MapJoinReversed(Tail(array), open, close, sep)
         \o sep \o open \o array[1] \o close

\* array.map(f).join(sep), f given as the text around each element
RECURSIVE MapJoin(_, _, _, _)
MapJoin(array, open, close, sep) ==
    IF array = <<>> THEN <<>>
    ELSE IF Len(array) = 1 THEN open \o array[1] \o close
    ELSE open \o array[1] \o close \o sep
         \o MapJoin(Tail(array), open, close, sep)

ScriptOpen == <<"<script src=\"">>
ScriptClose == <<"\"></script>">>
LinkOpen == <<"<link rel=\"stylesheet\" href=\"">>
LinkClose == <<"\">">>
NewLine == <<"\n">>

\* resources.javascript.map(...).join('\n')
ScriptTags(javascript) == MapJoin(javascript, ScriptOpen, ScriptClose, NewLine)

\* resources.css.map(...).join('\n')
StyleTags(css) == MapJoin(css, LinkOpen, LinkClose, NewLine)

\* content[n] passed as it is: a missing editor gives 'undefined'
SlotUnguarded(cont, n) == IF n <= Len(cont) THEN cont[n] ELSE <<"undefined">>

\* content[n] ? content[n] : '' with n counted from 1
Slot(cont, n) == IF n <= Len(cont) /\ cont[n] # <<>> THEN cont[n] ELSE <<>>

\* (3.g) construct an html page from the pen template
RenderPen(penTemplate, pen, cont, res) ==
    LET t1 == JsReplace(penTemplate, "{{html}}", Slot(cont, 1))
        t2 == JsReplace(t1, "{{title}}", Trim(pen.title))
        t3 == JsReplace(t2, "{{url}}", pen.url)
        t4 == JsReplace(t3, "{{style}}", Slot(cont, 2))
        t5 == JsReplace(t4, "{{javascript}}", Slot(cont, 3))
        t6 == JsReplace(t5, "{{resources.javascript}}",
                        ScriptTags(res.javascript))
    IN  JsReplace(t6, "{{resources.style}}", StyleTags(res.css))

\* (3.f) the values of the external resource inputs, trimmed, the empty
\* ones dropped
RECURSIVE TrimmedValues(_)
TrimmedValues(inputs) ==
    IF inputs = <<>> THEN <<>>
    ELSE LET val == Trim(Head(inputs))
         IN  (IF val # <<>> THEN <<val>> ELSE <<>>)
             \o TrimmedValues(Tail(inputs))

ReadResources(jsInputs, cssInputs) ==
    [javascript |-> TrimmedValues(jsInputs), css |-> TrimmedValues(cssInputs)]

AnchorOpen == <<"<a href=\"">>
AnchorMid == <<".html\" target=\"iframe\">">>
AnchorClose == <<"</a>">>

\* the same with `list = anchor + list`: the newest pen first
RECURSIVE IndexListNewestFirst(_)
IndexListNewestFirst(ps) ==
    IF ps = <<>> THEN <<>>
    ELSE LET title == Trim(Head(ps).title)
         IN  IndexListNewestFirst(Tail(ps)) \o AnchorOpen
             \o titleToFilename(title) \o AnchorMid \o title \o AnchorClose

\* the same with the href made of the lowercased title, not of
\* titleToFilename(title)
RECURSIVE IndexListTitleHref(_)
IndexListTitleHref(ps) ==
    IF ps = <<>> THEN <<>>
    ELSE LET title == Trim(Head(ps).title)
         IN  AnchorOpen \o ToLowerCase(title) \o AnchorMid \o title
             \o AnchorClose \o IndexListTitleHref(Tail(ps))

\* the list of saveIndex(): one anchor per pen of the collection
RECURSIVE IndexList(_)
IndexList(ps) ==
    IF ps = <<>> THEN <<>>
    ELSE LET title == Trim(Head(ps).title)
         IN  AnchorOpen \o titleToFilename(title) \o AnchorMid \o title
             \o AnchorClose \o IndexList(Tail(ps))

IndexDocument(ps, indexTemplate) ==
    JsReplace(indexTemplate, "{{list}}", IndexList(ps))

HtmlExt == <<".html">>

\* titleToFilename(pen.title) + '.html'
PenFilename(pen) == titleToFilename(pen.title) \o HtmlExt

\* 'index.html'
IndexFilename == <<"i", "n", "d", "e", "x">> \o HtmlExt

-----------------------------------------------------------------------------
(* Bounds and inputs *)

\* the pens one run meets on the search pages, or is given as links
MaxPens == 3

\* the search pages the site has; startPage and endPage are drawn from them
MaxPage == 2

SeqsUpTo(S, n) == UNION {[1..m -> S] : m \in 0..n}

P1 == [title |-> <<" ", "A", "b">>, url |-> <<"https://codepen.io/u/pen/1">>]
P2 == [title |-> <<"a", "b", "!">>, url |-> <<"https://codepen.io/u/pen/2">>]
P3 == [title |-> <<"C", " ", "d">>, url |-> <<"https://codepen.io/u/pen/3">>]
P4 == [title |-> <<"e">>, url |-> <<"https://codepen.io/u/pen/4">>]
P5 == [title |-> <<"F", "7">>, url |-> <<"https://codepen.io/u/pen/5">>]
P6 == [title |-> <<"g", "\n">>, url |-> <<"https://codepen.io/u/pen/6">>]
P7 == [title |-> <<"I", "n", "d", "e", "x">>,
       url |-> <<"https://codepen.io/u/pen/7">>]

\* the pens a search page or the links are drawn from: P1 and P2 have the
\* same filename, and P7 has the filename of the index
BasePens == {P1, P2, P3, P7}

\* a site of two search pages, of 3 and of 2 pens
ExampleWeb == <<(<<P1, P3, P4>>), (<<P5, P6>>)>>

NoPen == [title |-> <<>>, url |-> <<>>]

\* what the editors and the external resource inputs of a pen's page hold:
\* pen 2 has one editor only, pen 3 an empty css editor, pen 7 no editor
PenPage(pen) ==
    CASE pen = P1 ->
           [editors |-> <<(<<"<p>", "1", "</p>">>), (<<"p{}">>), (<<"f()">>)>>,
            jsInputs |-> <<(<<"a.js">>), (<<" ", "b.js", " ">>), (<<>>),
                           (<<"a.js">>)>>,
            cssInputs |-> <<(<<"y.css">>), (<<"x.css", "\n">>)>>]
      [] pen = P2 ->
           [editors |-> <<(<<"<b>", "2", "</b>">>)>>,
            jsInputs |-> <<(<<" ">>)>>,
            cssInputs |-> <<>>]
      [] pen = P3 ->
           [editors |-> <<(<<"<i>", "3", "</i>">>), (<<>>), (<<"g()">>)>>,
            jsInputs |-> <<(<<"b.js">>), (<<"a.js">>)>>,
            cssInputs |-> <<(<<"x.css">>)>>]
      [] pen = P7 ->
           [editors |-> <<>>,
            jsInputs |-> <<(<<"a.js">>)>>,
            cssInputs |-> <<>>]
      [] OTHER ->
           [editors |-> <<(<<"<u>">> \o pen.title \o <<"</u>">>), (<<"u{}">>),
                          (<<"h()">>)>>,
            jsInputs |-> <<>>,
            cssInputs |-> <<(<<"x.css">>)>>]

\* assets/templates/pen.html and assets/templates/index.html as read by run()
PenTemplate ==
    <<"<html><head><title>", "{{title}}", "</title>",
      "{{resources.style}}", "<style>", "{{style}}", "</style></head><body>",
      "<a href=\"", "{{url}}", "\">source</a>", "{{html}}",
      "{{resources.javascript}}", "<script>", "{{javascript}}",
      "</script></body></html>">>

IndexTemplate ==
    <<"<html><body><nav>", "{{list}}",
      "</nav><iframe name=\"iframe\"></iframe></body></html>">>

OldPen == <<"<html>an earlier download</html>">>
OldIndex == <<"<html>an earlier index</html>">>

\* the files pensPath may hold before run() starts
OldFiles == {PenFilename(P1), PenFilename(P3), IndexFilename}

OldDisk(S) == [f \in S |-> IF f = IndexFilename THEN OldIndex ELSE OldPen]

\* an entry of hist: operation op (named as the position that issues it) on
\* pen, at page or position n, and whether it succeeded
Ev(op, pen, n) == [op |-> op, pen |-> pen, n |-> n, ok |-> TRUE]

Failed(op, pen, n) == [op |-> op, pen |-> pen, n |-> n, ok |-> FALSE]

Log(op, pen, n) == hist' = Append(hist, Ev(op, pen, n))

\* the pens the site has answered with so far
RECURSIVE Total(_)
Total(w) ==
    IF DOMAIN w = {} THEN 0
    ELSE LET p == CHOOSE q \in DOMAIN w : TRUE
         IN  Len(w[p]) + Total([q \in DOMAIN w \ {p} |-> w[q]])

ClickSelectors ==
    <<"#box-html .editor-actions-right > button", "#html-view-compiled",
      "#box-css .editor-actions-right > button", "#css-view-compiled",
      "#box-js .editor-actions-right > button", "#js-view-compiled">>

ClickPc == <<"click1", "click2", "click3", "click4", "click5", "click6">>

NoResources == [javascript |-> <<>>, css |-> <<>>]

-----------------------------------------------------------------------------
(* run() *)

FnIdle == fnIn = <<>> /\ fnOut = <<>> /\ fnPc = "off"

\* the parameters of run(): with direct links the page range is never read,
\* and two ranges stand for all
Args ==
    {a \in [links : {NULL} \cup {Array(l) : l \in SeqsUpTo(BasePens, MaxPens)},
            startPage : 1..MaxPage,
            endPage : 0..MaxPage,
            debug : BOOLEAN,
            penTemplate : {PenTemplate},
            indexTemplate : {IndexTemplate}] :
        a.links.null \/ a.endPage \in {0, a.startPage}}

\* run() is entered
Entered ==
    /\ pc = "setup"
    /\ browser = "none"
    /\ page = 0
    /\ links = args.links
    /\ k = 0
    /\ pens = <<>>
    /\ content = <<>>
    /\ resources = NoResources
    /\ hist = <<>>
    /\ disk0 = disk
    /\ prev = <<>>
    /\ runNo = 1

InitRun ==
    /\ args \in Args
    /\ web \in {<<>>} \cup (IF args.links.null THEN {ExampleWeb} ELSE {})
    /\ disk \in {OldDisk(S) : S \in SUBSET OldFiles}
    /\ Entered

Init == InitRun /\ FnIdle

\* read the template files, ensure the folders exist
Setup ==
    /\ pc = "setup"
    /\ pc' = "launch"
    /\ Log("setup", NoPen, 0)
    /\ UNCHANGED <<args, web, disk, browser, page, links, k, pens, content,
                   resources, disk0, prev, runNo,
                   fnVars>>

\* puppeteer.launch() and browser.newPage()
Launch ==
    /\ pc = "launch"
    /\ browser' = "open"
    /\ pc' = IF args.debug THEN "viewport" ELSE "route"
    /\ Log("launch", NoPen, 0)
    /\ UNCHANGED <<args, web, disk, page, links, k, pens, content, resources,
                   disk0, prev, runNo,
                   fnVars>>

\* if (debug) await page.setViewport(...)
SetViewport ==
    /\ pc = "viewport"
    /\ pc' = "route"
    /\ Log("viewport", NoPen, 0)
    /\ UNCHANGED <<args, web, disk, browser, page, links, k, pens, content,
                   resources, disk0, prev, runNo,
                   fnVars>>

\* run() without the test of links: the search pages are always requested
RouteIgnoreLinks ==
    /\ pc = "route"
    /\ page' = args.startPage
    /\ pc' = "for"
    /\ UNCHANGED <<args, web, disk, browser, links, k, pens, content, resources,
                   hist, disk0, prev, runNo, fnVars>>

\* if (!links): the for statement's initialisation, or the direct links
Route ==
    /\ pc = "route"
    /\ IF links.null
       THEN page' = args.startPage /\ pc' = "for" /\ k' = k
       ELSE page' = page /\ pc' = "download" /\ k' = 1
    /\ UNCHANGED <<args, web, disk, browser, links, pens, content, resources,
                   hist, disk0, prev, runNo, fnVars>>

\* the loop with params.page < endPage: the last page is left out
ForPageExclusive ==
    /\ pc = "for"
    /\ pc' = IF page < args.endPage THEN "search_goto" ELSE "close"
    /\ UNCHANGED <<args, web, disk, browser, page, links, k, pens, content,
                   resources, hist, disk0, prev, runNo, fnVars>>

\* the loop as do ... while: the first page is requested whatever endPage is
ForPageDoWhile ==
    /\ pc = "for"
    /\ pc' = IF page <= args.endPage \/ page = args.startPage
             THEN "search_goto" ELSE "close"
    /\ UNCHANGED <<args, web, disk, browser, page, links, k, pens, content,
                   resources, hist, disk0, prev, runNo, fnVars>>

\* params.page <= endPage
ForPage ==
    /\ pc = "for"
    /\ pc' = IF page <= args.endPage THEN "search_goto" ELSE "close"
    /\ UNCHANGED <<args, web, disk, browser, page, links, k, pens, content,
                   resources, hist, disk0, prev, runNo, fnVars>>

\* (2) await page.goto(searchUrl + ...)
SearchGoto ==
    /\ pc = "search_goto"
    /\ pc' = "search_eval"
    /\ Log("search_goto", NoPen, page)
    /\ UNCHANGED <<args, web, disk, browser, page, links, k, pens, content,
                   resources, disk0, prev, runNo,
                   fnVars>>

\* links = await page.evaluate(...): the title links of the results page
SearchEval ==
    /\ pc = "search_eval"
    /\ IF page \in DOMAIN web
       THEN links' = Array(web[page]) /\ web' = web
       ELSE \E found \in SeqsUpTo(BasePens, MaxPens) :
                /\ found = <<>> \/ Total(web) + Len(found) <= MaxPens
                /\ links' = Array(found)
                /\ web' = (page :> found) @@ web
    /\ k' = 1
    /\ pc' = "download"
    /\ Log("search_eval", NoPen, page)
    /\ UNCHANGED <<args, disk, browser, page, pens, content, resources, disk0, prev, runNo,
                   fnVars>>

-----------------------------------------------------------------------------
(* download() *)

\* download() without step (3.b): every pen is downloaded
NextPenNoSkip ==
    /\ pc = "download"
    /\ IF k > Len(links.items)
       THEN /\ pc' = "save_index"
            /\ UNCHANGED <<k, pens, hist>>
       ELSE /\ pens' = Append(pens, links.items[k])
            /\ k' = k
            /\ pc' = "goto"
            /\ hist' = Append(hist, Ev("pen", links.items[k], k))
    /\ UNCHANGED <<args, web, disk, browser, page, links, content, resources,
                   disk0, prev, runNo,
                   fnVars>>

\* download() with steps (3.a) and (3.b) exchanged: a skipped pen is not
\* added to the collection
NextPenSkipFirst ==
    /\ pc = "download"
    /\ IF k > Len(links.items)
       THEN /\ pc' = "save_index"
            /\ UNCHANGED <<k, pens, hist>>
       ELSE LET pen == links.items[k]
            IN  IF PenFilename(pen) \in DOMAIN disk
                THEN /\ k' = k + 1
                     /\ pc' = pc
                     /\ pens' = pens
                     /\ hist' = hist \o <<Ev("pen", pen, k),
                                          Ev("skip", pen, k)>>
                ELSE /\ k' = k
                     /\ pc' = "goto"
                     /\ pens' = Append(pens, pen)
                     /\ hist' = Append(hist, Ev("pen", pen, k))
    /\ UNCHANGED <<args, web, disk, browser, page, links, content, resources,
                   disk0, prev, runNo,
                   fnVars>>

\* for (var pen of links): (3.a) add the pen to the collection, (3.b) skip
\* it when its file exists; after the last pen download() returns
NextPen ==
    /\ pc = "download"
    /\ IF k > Len(links.items)
       THEN /\ pc' = "save_index"
            /\ UNCHANGED <<k, pens, hist>>
       ELSE LET pen == links.items[k]
            IN  /\ pens' = Append(pens, pen)
                /\ IF PenFilename(pen) \in DOMAIN disk
                   THEN /\ k' = k + 1
                        /\ pc' = pc
                        /\ hist' = hist \o <<Ev("pen", pen, k),
                                             Ev("skip", pen, k)>>
                   ELSE /\ k' = k
                        /\ pc' = "goto"
                        /\ hist' = Append(hist, Ev("pen", pen, k))
    /\ UNCHANGED <<args, web, disk, browser, page, links, content, resources,
                   disk0, prev, runNo,
                   fnVars>>

\* download() without step (3.c): the clicks follow the navigation at once
GotoNoWait ==
    /\ pc = "goto"
    /\ pc' = IF args.debug THEN "shot_before" ELSE ClickPc[1]
    /\ Log("goto", links.items[k], k)
    /\ UNCHANGED <<args, web, disk, browser, page, links, k, pens, content,
                   resources, disk0, prev, runNo,
                   fnVars>>

\* await page.goto(pen.url, {waitUntil: 'networkidle'})
Goto ==
    /\ pc = "goto"
    /\ pc' = IF args.debug THEN "shot_before" ELSE "wait"
    /\ Log("goto", links.items[k], k)
    /\ UNCHANGED <<args, web, disk, browser, page, links, k, pens, content,
                   resources, disk0, prev, runNo,
                   fnVars>>

\* if (debug) await page.screenshot({path: debugPath + 'before.png'})
ScreenshotBefore ==
    /\ pc = "shot_before"
    /\ pc' = "wait"
    /\ Log("shot_before", links.items[k], k)
    /\ UNCHANGED <<args, web, disk, browser, page, links, k, pens, content,
                   resources, disk0, prev, runNo,
                   fnVars>>

\* (3.c) await page.waitForSelector('.result-iframe[src^="https"]')
WaitForSelector ==
    /\ pc = "wait"
    /\ pc' = ClickPc[1]
    /\ Log("wait", links.items[k], k)
    /\ UNCHANGED <<args, web, disk, browser, page, links, k, pens, content,
                   resources, disk0, prev, runNo,
                   fnVars>>

\* (3.d) await page.click(ClickSelectors[n])
Click(n) ==
    /\ pc = ClickPc[n]
    /\ pc' = IF n < Len(ClickPc) THEN ClickPc[n + 1] ELSE "eval_content"
    /\ Log(ClickPc[n], links.items[k], k)
    /\ UNCHANGED <<args, web, disk, browser, page, links, k, pens, content,
                   resources, disk0, prev, runNo,
                   fnVars>>

\* (3.e) var content = await page.evaluate(...)
EvalContent ==
    /\ pc = "eval_content"
    /\ content' = PenPage(links.items[k]).editors
    /\ pc' = "eval_resources"
    /\ Log("eval_content", links.items[k], k)
    /\ UNCHANGED <<args, web, disk, browser, page, links, k, pens, resources,
                   disk0, prev, runNo,
                   fnVars>>

\* (3.f) var resources = await page.evaluate(...)
EvalResources ==
    /\ pc = "eval_resources"
    /\ resources' = ReadResources(PenPage(links.items[k]).jsInputs,
                                  PenPage(links.items[k]).cssInputs)
    /\ pc' = IF args.debug THEN "shot_after" ELSE "write"
    /\ Log("eval_resources", links.items[k], k)
    /\ UNCHANGED <<args, web, disk, browser, page, links, k, pens, content,
                   disk0, prev, runNo,
                   fnVars>>

\* if (debug) await page.screenshot({path: debugPath + 'after.png'})
ScreenshotAfter ==
    /\ pc = "shot_after"
    /\ pc' = "write"
    /\ Log("shot_after", links.items[k], k)
    /\ UNCHANGED <<args, web, disk, browser, page, links, k, pens, content,
                   resources, disk0, prev, runNo,
                   fnVars>>

\* (3.g) fs.writeFileSync(pensPath + filename, html)
WritePen ==
    /\ pc = "write"
    /\ disk' = (PenFilename(links.items[k]) :>
                   RenderPen(args.penTemplate, links.items[k], content, resources))
               @@ disk
    /\ k' = k + 1
    /\ pc' = "download"
    /\ Log("write", links.items[k], k)
    /\ UNCHANGED <<args, web, browser, page, links, pens, content, resources,
                   disk0, prev, runNo,
                   fnVars>>

-----------------------------------------------------------------------------
(* saveIndex() and the end of run() *)

\* (4) saveIndex(pens, pensPath, indexTemplate), then params.page++ or, with
\* direct links, the end of the else branch
SaveIndex ==
    /\ pc = "save_index"
    /\ disk' = (IndexFilename :> IndexDocument(pens, args.indexTemplate))
               @@ disk
    /\ IF args.links.null
       THEN page' = page + 1 /\ pc' = "for"
       ELSE page' = page /\ pc' = "close"
    /\ Log("save_index", NoPen, page)
    /\ UNCHANGED <<args, web, browser, links, k, pens, content, resources,
                   disk0, prev, runNo,
                   fnVars>>

\* browser.close()
Close ==
    /\ pc = "close"
    /\ browser' = "closed"
    /\ pc' = "done"
    /\ Log("close", NoPen, 0)
    /\ UNCHANGED <<args, web, disk, page, links, k, pens, content, resources,
                   disk0, prev, runNo,
                   fnVars>>

\* the positions of the awaited browser operations, those of download()
\* and all of them
PenStepPc ==
    {"goto", "shot_before", "wait", "eval_content", "eval_resources",
     "shot_after"} \cup Range(ClickPc)

BrowserPc == {"launch", "viewport", "search_goto", "search_eval"} \cup PenStepPc

\* the pen and the page or position an operation issued at pc is about
PenAt == IF pc \in PenStepPc \cup {"write"} THEN links.items[k] ELSE NoPen
NumAt == IF pc \in PenStepPc \cup {"write"} THEN k ELSE page

\* run() with its body in try ... finally { browser.close() }
RejectClosing ==
    /\ pc \in BrowserPc
    /\ pc' = "failed"
    /\ browser' = "closed"
    /\ hist' = hist \o <<Failed(pc, PenAt, NumAt), Ev("close", NoPen, 0)>>
    /\ UNCHANGED <<args, web, disk, page, links, k, pens, content, resources,
                   disk0, prev, runNo, fnVars>>

\* download() with each pen in try ... catch: a pen that fails is logged and
\* the next pen is taken
RejectNextPen ==
    /\ pc \in BrowserPc
    /\ IF pc \in PenStepPc
       THEN pc' = "download" /\ k' = k + 1
       ELSE pc' = "failed" /\ k' = k
    /\ hist' = Append(hist, Failed(pc, PenAt, NumAt))
    /\ UNCHANGED <<args, web, disk, browser, page, links, pens, content,
                   resources, disk0, prev, runNo, fnVars>>

\* an awaited browser operation rejects: run() rejects there and nothing
\* after it is executed
Reject ==
    /\ pc \in BrowserPc
    /\ pc' = "failed"
    /\ hist' = Append(hist, Failed(pc, PenAt, NumAt))
    /\ UNCHANGED <<args, web, disk, browser, page, links, k, pens, content,
                   resources, disk0, prev, runNo,
                   fnVars>>

\* the file fs.writeFileSync is about to write
Target == IF pc = "write" THEN PenFilename(links.items[k]) ELSE IndexFilename

\* a filesystem operation throws; a writeFileSync that fails after it opened
\* the file leaves it truncated
Throw ==
    /\ pc \in {"setup", "write", "save_index"}
    /\ pc' = "failed"
    /\ \/ disk' = disk
       \/ pc # "setup" /\ disk' = (Target :> <<>>) @@ disk
    /\ hist' = Append(hist, Failed(pc, PenAt, NumAt))
    /\ UNCHANGED <<args, web, browser, page, links, k, pens, content,
                   resources, disk0, prev, runNo,
                   fnVars>>

\* the steps in which the operation succeeds
Proceed ==
    \/ Setup
    \/ Launch
    \/ SetViewport
    \/ Route
    \/ ForPage
    \/ SearchGoto
    \/ SearchEval
    \/ NextPen
    \/ Goto
    \/ ScreenshotBefore
    \/ WaitForSelector
    \/ \E n \in DOMAIN ClickPc : Click(n)
    \/ EvalContent
    \/ EvalResources
    \/ ScreenshotAfter
    \/ WritePen
    \/ SaveIndex
    \/ Close

Next ==
    \/ Proceed
    \/ Reject
    \/ Throw

Spec == Init /\ [][Next]_vars

-----------------------------------------------------------------------------
(* run() started a second time on the same pensPath, with the same         *)
(* parameters and a site that answers the same: the search pages are fixed *)
(* from the start, with at most MaxPens - 1 pens on them                   *)

Sites ==
    {w \in [1..MaxPage -> SeqsUpTo(BasePens, MaxPens - 1)] :
        Total(w) <= MaxPens - 1}

InitResume ==
    /\ args \in {a \in Args : /\ a.links.null
                              /\ a.startPage = 1
                              /\ a.endPage = MaxPage}
    /\ web \in Sites
    /\ disk \in {OldDisk(S) : S \in SUBSET {PenFilename(P3), IndexFilename}}
    /\ Entered
    /\ FnIdle

\* the process has ended, by a return or by a rejection; run() is called again
Restart ==
    /\ pc \in {"done", "failed"}
    /\ runNo = 1
    /\ runNo' = 2
    /\ prev' = hist
    /\ disk0' = disk
    /\ hist' = <<>>
    /\ pc' = "setup"
    /\ browser' = "none"
    /\ page' = 0
    /\ links' = args.links
    /\ k' = 0
    /\ pens' = <<>>
    /\ content' = <<>>
    /\ resources' = NoResources
    /\ UNCHANGED <<args, web, disk, fnVars>>

NextResume ==
    \/ Proceed
    \/ Reject
    \/ Throw
    \/ Restart

SpecResume == InitResume /\ [][NextResume]_vars

-----------------------------------------------------------------------------
(* titleToFilename() on its own: every string over NormAlphabet of at most *)
(* MaxLen characters, and the two titles of the specification's examples   *)

MaxLen == 4

NormAlphabet == {"a", "Z", "7", " ", "-", "!", "\t"}

Example1 == <<"F", "l", "e", "x", "b", "o", "x", " ", "M", "a", "s", "o", "n", "r", "y", "!", "!">>

Example2 == <<" ", " ", "-", "-", "M", "u", "l", "t", "i", " ", " ", " ", "S", "p", "a", "c", "e", "-", "-", " ", " ">>

NormInputs == SeqsUpTo(NormAlphabet, MaxLen) \cup {Example1, Example2}

\* no run() is in progress
RunIdle ==
    /\ args = [links |-> NULL, startPage |-> 1, endPage |-> 0,
               debug |-> FALSE, penTemplate |-> PenTemplate,
               indexTemplate |-> IndexTemplate]
    /\ web = <<>>
    /\ disk = <<>>
    /\ pc = "off"
    /\ browser = "none"
    /\ page = 0
    /\ links = NULL
    /\ k = 0
    /\ pens = <<>>
    /\ content = <<>>
    /\ resources = NoResources
    /\ hist = <<>>
    /\ disk0 = <<>>
    /\ prev = <<>>
    /\ runNo = 0

InitNorm ==
    /\ RunIdle
    /\ fnIn \in NormInputs
    /\ fnOut = <<>>
    /\ fnPc = "title"

\* titleToFilename(title)
Normalize ==
    /\ fnPc = "title"
    /\ fnOut' = <<titleToFilename(fnIn)>>
    /\ fnPc' = "once"
    /\ UNCHANGED <<fnIn, runVars>>

\* titleToFilename(titleToFilename(title))
NormalizeAgain ==
    /\ fnPc = "once"
    /\ fnOut' = Append(fnOut, titleToFilename(fnOut[1]))
    /\ fnPc' = "twice"
    /\ UNCHANGED <<fnIn, runVars>>

NextNorm ==
    \/ Normalize
    \/ NormalizeAgain

SpecNorm == InitNorm /\ [][NextNorm]_vars

-----------------------------------------------------------------------------
(* Steps (3.f) and (3.g) of download() on their own: every list of at most *)
(* MaxRes external resource inputs of either kind                          *)

MaxRes == 3

\* what an external resource input may hold
JsValues == {<<"a.js">>, <<" ", "b.js">>, <<" ">>}
CssValues == {<<"x.css">>, <<"y.css", "\n">>, <<>>}

\* a second pen template, with the scripts in the head
PenTemplate2 ==
    <<"<html><head>", "{{resources.javascript}}", "{{resources.style}}",
      "<title>", "{{title}}", "</title><style>", "{{style}}",
      "</style></head><body>", "{{html}}", "<script>", "{{javascript}}",
      "</script><a href=\"", "{{url}}", "\">source</a></body></html>">>

InitRender ==
    /\ RunIdle
    /\ fnIn \in [penTemplate : {PenTemplate, PenTemplate2},
                 pen : {P1},
                 editors : {PenPage(P1).editors},
                 jsInputs : SeqsUpTo(JsValues, MaxRes),
                 cssInputs : SeqsUpTo(CssValues, MaxRes)]
    /\ fnOut = <<>>
    /\ fnPc = "page"

\* (3.f) what page.evaluate returns for the external resources
ReadPage ==
    /\ fnPc = "page"
    /\ fnOut' = <<ReadResources(fnIn.jsInputs, fnIn.cssInputs)>>
    /\ fnPc' = "read"
    /\ UNCHANGED <<fnIn, runVars>>

\* (3.g) the html page
Render ==
    /\ fnPc = "read"
    /\ fnOut' = Append(fnOut, RenderPen(fnIn.penTemplate, fnIn.pen,
                                        fnIn.editors, fnOut[1]))
    /\ fnPc' = "rendered"
    /\ UNCHANGED <<fnIn, runVars>>

NextRender ==
    \/ ReadPage
    \/ Render

SpecRender == InitRender /\ [][NextRender]_vars

-----------------------------------------------------------------------------
(* Step (3.g) of download() with titles, urls and editor texts that hold a  *)
(* '$' or the text of a token, and a template that has a token twice        *)

\* a third pen template, with the title in the head and in the body
PenTemplate3 ==
    <<"<html><head><title>", "{{title}}", "</title>",
      "{{resources.style}}", "<style>", "{{style}}", "</style></head><body>",
      "<h1>", "{{title}}", "</h1><a href=\"", "{{url}}", "\">source</a>",
      "{{html}}", "{{resources.javascript}}", "<script>", "{{javascript}}",
      "</script></body></html>">>

FillTitles ==
    {<<"a", " ", "b">>, <<" ", "x", " ">>, <<"$", "$">>, <<"a", "$", "&">>,
     <<"$", "'">>, <<"{{url}}">>, <<"{{html}}">>}

FillUrls ==
    {<<"https://codepen.io/u/pen/1">>,
     <<"https://codepen.io/u/pen/2?a=", "$", "&", "b">>,
     <<"{{style}}">>}

FillTexts ==
    {<<>>, <<"x">>, <<"$", "$">>, <<"{{title}}">>, <<"{{javascript}}">>}

InitFill ==
    /\ RunIdle
    /\ fnIn \in [penTemplate : {PenTemplate, PenTemplate2, PenTemplate3},
                 pen : [title : FillTitles, url : FillUrls],
                 editors : SeqsUpTo(FillTexts, 3),
                 jsInputs : {<<>>, <<(<<"a.js">>)>>},
                 cssInputs : {<<>>, <<(<<"x.css">>), (<<"y.css">>)>>}]
    /\ fnOut = <<>>
    /\ fnPc = "page"

SpecFill == InitFill /\ [][NextRender]_vars

-----------------------------------------------------------------------------
(* titleToFilename: the shape of its result (C7), idempotence (C8) and the *)
(* reference steps (C9)                                                    *)

SlugChars == Range(LowerCase) \cup Digits \cup {"-"}

IsSlug(r) ==
    /\ \A i \in 1..Len(r) : r[i] \in SlugChars
    /\ \A i \in 1..(Len(r) - 1) : ~(r[i] = "-" /\ r[i + 1] = "-")
    /\ r # <<>> => r[1] # "-" /\ r[Len(r)] # "-"

\* C7: for every input string s, titleToFilename(s) consists only of
\* lowercase letters, digits and '-', has no two adjacent '-' and neither
\* starts nor ends with '-' (it may be empty)
C7_SlugShape == fnPc \in {"once", "twice"} => IsSlug(fnOut[1])

\* a title with a '-' on both ends, an uppercase letter and a run of
\* separators was normalized
C7_Witness ==
    /\ fnPc = "once"
    /\ fnIn = <<"-", "Z", "!", " ">>
    /\ fnOut[1] = <<"z">>

\* C8: titleToFilename(titleToFilename(s)) = titleToFilename(s)
C8_Idempotent == fnPc = "twice" => fnOut[2] = fnOut[1]

\* a title with a run of three separators was normalized twice
C8_Witness ==
    /\ fnPc = "twice"
    /\ fnIn = <<"a", "!", " ", "-">>
    /\ fnOut = <<(<<"a">>), (<<"a">>)>>

\* the reference steps of C9, each on its own: a maximal run of characters
\* outside [A-Za-z0-9] becomes one '-'
RECURSIVE RefRuns(_, _)
RefRuns(s, inRun) ==
    IF s = <<>> THEN <<>>
    ELSE IF Head(s) \in AlphaNum THEN <<Head(s)>> \o RefRuns(Tail(s), FALSE)
    ELSE IF inRun THEN RefRuns(Tail(s), TRUE)
    ELSE <<"-">> \o RefRuns(Tail(s), TRUE)

RefDropLeading(s) == IF s # <<>> /\ Head(s) = "-" THEN Tail(s) ELSE s

RefDropTrailing(s) ==
    IF s # <<>> /\ s[Len(s)] = "-" THEN SubSeq(s, 1, Len(s) - 1) ELSE s

RefTrim(s) ==
    IF \E i \in 1..Len(s) : s[i] \notin WhiteSpace
    THEN SubSeq(s,
                CHOOSE i \in 1..Len(s) :
                    /\ s[i] \notin WhiteSpace
                    /\ \A j \in 1..(i - 1) : s[j] \in WhiteSpace,
                CHOOSE i \in 1..Len(s) :
                    /\ s[i] \notin WhiteSpace
                    /\ \A j \in (i + 1)..Len(s) : s[j] \in WhiteSpace)
    ELSE <<>>

RefLower(s) ==
    [i \in 1..Len(s) |->
        IF \E n \in DOMAIN UpperCase : UpperCase[n] = s[i]
        THEN LowerCase[CHOOSE n \in DOMAIN UpperCase : UpperCase[n] = s[i]]
        ELSE s[i]]

RefNormalize(s) ==
    RefLower(RefDropTrailing(RefDropLeading(RefRuns(RefTrim(s), FALSE))))

\* C9: titleToFilename(s) is the result of the reference steps (trim, one
\* '-' for every maximal run of characters outside [A-Za-z0-9], drop a
\* leading and a trailing '-', lowercase); "Flexbox Masonry!!" gives
\* "flexbox-masonry" and "  --Multi   Space--  " gives "multi-space"
C9_ReferenceSteps ==
    fnPc \in {"once", "twice"} =>
        /\ fnOut[1] = RefNormalize(fnIn)
        /\ fnIn = Example1 => fnOut[1] = <<"f", "l", "e", "x", "b", "o", "x", "-", "m", "a", "s", "o", "n", "r", "y">>
        /\ fnIn = Example2 => fnOut[1] = <<"m", "u", "l", "t", "i", "-", "s", "p", "a", "c", "e">>

\* the second example was normalized
C9_Witness ==
    /\ fnPc = "once"
    /\ fnIn = Example2
    /\ fnOut[1] = <<"m", "u", "l", "t", "i", "-", "s", "p", "a", "c", "e">>

-----------------------------------------------------------------------------
(* The external resources in the rendered pen (C10) *)

\* the places of lexeme x in doc, first to last
RECURSIVE PlacesFrom(_, _, _)
PlacesFrom(doc, x, i) ==
    IF i > Len(doc) THEN <<>>
    ELSE (IF doc[i] = x THEN <<i>> ELSE <<>>) \o PlacesFrom(doc, x, i + 1)

\* doc holds one tag open url close per url of urls, in their order, a
\* newline and nothing else between two tags
TagsInOrder(doc, open, close, urls) ==
    LET at == PlacesFrom(doc, open[1], 1)
    IN  /\ Len(at) = Len(urls)
        /\ \A n \in 1..Len(urls) :
              /\ SubSeq(doc, at[n] + 1, at[n] + Len(urls[n])) = urls[n]
              /\ at[n] + Len(urls[n]) + 1 <= Len(doc)
              /\ doc[at[n] + Len(urls[n]) + 1] = close[1]
              /\ n < Len(urls) =>
                    /\ doc[at[n] + Len(urls[n]) + 2] = "\n"
                    /\ at[n + 1] = at[n] + Len(urls[n]) + 3

\* C10: in the rendered pen the external script URLs appear as script tags
\* and the external style URLs as stylesheet link tags, in the order the
\* page reported them, one tag per reported URL, duplicates kept, joined by
\* newlines
C10_ResourceOrder ==
    fnPc = "rendered" =>
        /\ TagsInOrder(fnOut[2], ScriptOpen, ScriptClose, fnOut[1].javascript)
        /\ TagsInOrder(fnOut[2], LinkOpen, LinkClose, fnOut[1].css)

\* a pen whose page reported [a.js, b.js, a.js] and [y.css, x.css] was
\* rendered
C10_Witness ==
    /\ fnPc = "rendered"
    /\ fnOut[1].javascript = <<(<<"a.js">>), (<<"b.js">>), (<<"a.js">>)>>
    /\ fnOut[1].css = <<(<<"y.css">>), (<<"x.css">>)>>
    /\ \E i \in 1..Len(fnOut[2]), j \in 1..Len(fnOut[2]) :
          i < j /\ fnOut[2][i] = "a.js" /\ fnOut[2][j] = "b.js"

-----------------------------------------------------------------------------
(* Reading hist and the index file *)

Last(s) == s[Len(s)]

\* the places of the entries of hist with operation op that succeeded
Done(op) == {i \in DOMAIN hist : hist[i].op = op /\ hist[i].ok}

\* the places where an operation op was issued, whatever came of it
Issued(op) == {i \in DOMAIN hist : hist[i].op = op}

\* the pens of the entries op of hist from place a to place b, in order
RECURSIVE PensOf(_, _, _)
PensOf(op, a, b) ==
    IF a > b THEN <<>>
    ELSE (IF hist[a].op = op THEN <<hist[a].pen>> ELSE <<>>)
         \o PensOf(op, a + 1, b)

\* the pens the run has met so far, and those it navigated to
Encountered == PensOf("pen", 1, Len(hist))
Navigated == PensOf("goto", 1, Len(hist))

\* whether file f was in pensPath when the entry at place i was made
ExistedAt(f, i) ==
    \/ f \in DOMAIN disk0
    \/ \E j \in 1..(i - 1) :
          /\ hist[j].op = "write"
          /\ hist[j].ok
          /\ PenFilename(hist[j].pen) = f
    \/ f = IndexFilename /\ \E j \in 1..(i - 1) :
          hist[j].op = "save_index" /\ hist[j].ok

\* the anchors of an index document, first to last: what stands between
\* '<a href="' and '.html" target="iframe">', and from there to '</a>'
RECURSIVE UpTo(_, _)
UpTo(doc, x) ==
    IF doc = <<>> \/ Head(doc) = x THEN <<>>
    ELSE <<Head(doc)>> \o UpTo(Tail(doc), x)

RECURSIVE ParseAnchors(_)
ParseAnchors(doc) ==
    IF doc = <<>> THEN <<>>
    ELSE IF Head(doc) # AnchorOpen[1] THEN ParseAnchors(Tail(doc))
    ELSE LET slug == UpTo(Tail(doc), AnchorMid[1])
             rest == SubSeq(doc, Len(slug) + 3, Len(doc))
             text == UpTo(rest, AnchorClose[1])
         IN  <<[slug |-> slug, text |-> text]>>
             \o ParseAnchors(SubSeq(rest, Len(text) + 2, Len(rest)))

\* the anchor a pen is to have: the name of its file without '.html', and
\* its trimmed title
AnchorOf(pen) ==
    [slug |-> SubSeq(PenFilename(pen), 1, Len(PenFilename(pen)) - 1),
     text |-> RefTrim(pen.title)]

AnchorsOf(ps) == [i \in 1..Len(ps) |-> AnchorOf(ps[i])]

IndexAnchors == ParseAnchors(disk[IndexFilename])

\* the index file was written by the last step
IndexJustWritten ==
    hist # <<>> /\ Last(hist).op = "save_index" /\ Last(hist).ok

-----------------------------------------------------------------------------
(* The pipeline: skipping (C1) *)

\* C1: when the file <slug>.html of a pen exists at the moment download()
\* comes to the pen, no navigation to the pen is issued and no file is
\* written for it (the next thing download() does is to take the next pen or
\* to return), yet the index written next has the pen's anchor
C1_SkipExisting ==
    /\ \A i \in DOMAIN hist :
          (hist[i].op = "pen" /\ ExistedAt(PenFilename(hist[i].pen), i)) =>
              /\ i < Len(hist)
              /\ hist[i + 1].op = "skip"
              /\ i + 2 <= Len(hist) =>
                    hist[i + 2].op \in {"pen", "save_index"}
    /\ IndexJustWritten =>
          \A i \in DOMAIN hist :
              (hist[i].op = "pen" /\ ExistedAt(PenFilename(hist[i].pen), i)) =>
                  \E n \in DOMAIN IndexAnchors :
                      /\ IndexAnchors[n] = AnchorOf(hist[i].pen)
                      /\ n = Cardinality({h \in Issued("pen") : h <= i})

\* a pen whose file was there before the run was skipped, and the index
\* written after it lists it
C1_Witness ==
    /\ IndexJustWritten
    /\ \E i \in DOMAIN hist :
          /\ hist[i].op = "skip"
          /\ hist[i].pen = P3
          /\ PenFilename(P3) \in DOMAIN disk0
    /\ \E n \in DOMAIN IndexAnchors : IndexAnchors[n] = AnchorOf(P3)
    /\ Navigated # <<>>

-----------------------------------------------------------------------------
(* The pipeline: a whole run (C2) and the index (C3) *)

\* the pens of search pages a to b of the site, in page order
RECURSIVE PagePens(_, _)
PagePens(a, b) ==
    IF a > b THEN <<>>
    ELSE (IF a \in DOMAIN web THEN web[a] ELSE <<>>) \o PagePens(a + 1, b)

DistinctSlugs(ps) ==
    \A i, j \in DOMAIN ps : i # j => PenFilename(ps[i]) # PenFilename(ps[j])

\* a run over search pages that ended with every operation succeeding, the
\* pens of distinct slugs and no pen file there before
CleanRun ==
    /\ pc = "done"
    /\ args.links.null
    /\ DOMAIN disk0 \subseteq {IndexFilename}
    /\ DistinctSlugs(PagePens(args.startPage, args.endPage))

\* pensPath holds one file per pen met and index.html, and index.html lists
\* one anchor per pen in the order the pens were met
OneFilePerPen ==
    LET met == PagePens(args.startPage, args.endPage)
    IN  /\ Encountered = met
        /\ DOMAIN disk = {PenFilename(met[i]) : i \in DOMAIN met}
                         \cup {IndexFilename}
        /\ Cardinality(DOMAIN disk) = Len(met) + 1
        /\ IndexAnchors = AnchorsOf(met)

\* C2 as stated: for a run over any sequence of search pages of distinct
\* slugs, no pen file there before and every operation succeeding, pensPath
\* holds exactly one <slug>.html per pen met plus index.html, and index.html
\* one anchor per pen in the order met
C2_AsStated == CleanRun => OneFilePerPen

\* no pen of ps has the filename of the index
NoIndexSlug(ps) == \A i \in DOMAIN ps : PenFilename(ps[i]) # IndexFilename

\* C2 as amended: for a run over at least one search page (startPage <=
\* endPage), under the same conditions, pensPath holds exactly one
\* <slug>.html per pen met whose slug is not 'index', plus index.html, and
\* index.html lists one anchor per pen in the order met; pages of 3 and 2
\* pens give 5 pen files and 5 anchors
C2_OneFilePerPen ==
    (CleanRun /\ args.startPage <= args.endPage) =>
        /\ LET met == PagePens(args.startPage, args.endPage)
               own == SelectSeq(met, LAMBDA q : PenFilename(q) # IndexFilename)
           IN  /\ Encountered = met
               /\ DOMAIN disk \ {IndexFilename}
                     = {PenFilename(own[i]) : i \in DOMAIN own}
               /\ Cardinality(DOMAIN disk \ {IndexFilename}) = Len(own)
               /\ IndexFilename \in DOMAIN disk
               /\ IndexAnchors = AnchorsOf(met)
               /\ NoIndexSlug(met) => OneFilePerPen
        /\ (web = ExampleWeb /\ args.startPage = 1 /\ args.endPage = 2) =>
              /\ Cardinality(DOMAIN disk \ {IndexFilename}) = 5
              /\ Len(IndexAnchors) = 5

\* the run over the pages of 3 and 2 pens ended
C2_Witness ==
    /\ CleanRun
    /\ web = ExampleWeb
    /\ args.startPage = 1
    /\ args.endPage = 2
    /\ Cardinality(Done("write")) = 5
    /\ IndexAnchors[5] = AnchorOf(P6)

\* an index document without its anchors
RECURSIVE DropAnchors(_)
DropAnchors(doc) ==
    IF doc = <<>> THEN <<>>
    ELSE IF Head(doc) # AnchorOpen[1]
    THEN <<Head(doc)>> \o DropAnchors(Tail(doc))
    ELSE LET upto == UpTo(doc, AnchorClose[1])
         IN  DropAnchors(SubSeq(doc, Len(upto) + 2, Len(doc)))

\* the place of the last entry op of hist before place i, 0 if there is none
LastBefore(op, i) ==
    IF \E j \in 1..(i - 1) : hist[j].op = op
    THEN CHOOSE j \in 1..(i - 1) :
            /\ hist[j].op = op
            /\ \A h \in (j + 1)..(i - 1) : hist[h].op # op
    ELSE 0

\* every pen met from place a to place b was skipped or written
AllProcessed(a, b) ==
    \A i \in a..b :
        hist[i].op = "pen" =>
            \E j \in (i + 1)..b :
                /\ hist[j].op \in {"skip", "write"}
                /\ hist[j].ok
                /\ hist[j].pen = hist[i].pen
                /\ hist[j].n = hist[i].n
                /\ \A h \in (i + 1)..(j - 1) : hist[h].op # "pen"

\* C3: each time the index file is written its list is exactly the anchors
\* of all pens met so far in the run, downloaded and skipped alike,
\* duplicates included, in the order met, and nothing of the previous index
\* is left; with search pages the write happens once after each page whose
\* pens were all processed
C3_IndexIsAllPensSoFar ==
    /\ IndexJustWritten =>
          /\ IndexAnchors = AnchorsOf(Encountered)
          /\ DropAnchors(disk[IndexFilename])
                = SelectSeq(args.indexTemplate, LAMBDA x : x # "{{list}}")
    /\ args.links.null =>
          /\ \A i \in Done("save_index") :
                LET s == LastBefore("search_eval", i)
                IN  /\ s > 0
                    /\ hist[s].ok
                    /\ hist[s].n = hist[i].n
                    /\ PensOf("pen", s, i) = web[hist[i].n]
                    /\ AllProcessed(s, i)
                    /\ LastBefore("save_index", i) < s
          /\ \A i \in Issued("search_goto") :
                hist[i].n > args.startPage =>
                    /\ hist[i - 1].op = "save_index"
                    /\ hist[i - 1].ok
                    /\ hist[i - 1].n = hist[i].n - 1
          /\ pc \in {"close", "done"} =>
                Cardinality(Done("save_index"))
                    = Cardinality(Done("search_eval"))

\* the index was written after the second page, over an earlier index, with
\* a skipped pen, a downloaded pen and the same pen twice in its list
C3_Witness ==
    /\ IndexJustWritten
    /\ args.links.null
    /\ IndexFilename \in DOMAIN disk0
    /\ Cardinality(Done("save_index")) = 2
    /\ Encountered = <<P3, P1, P3>>
    /\ Cardinality(Done("skip")) = 2
    /\ IndexAnchors = <<AnchorOf(P3), AnchorOf(P1), AnchorOf(P3)>>

-----------------------------------------------------------------------------
(* The pipeline: the browser session (C5) and a failing pen (C6) *)

\* C5: on a run in which every operation succeeds the browser is closed
\* exactly once, by the last step of the run, after the last index write and
\* after every pen was processed; on a run in which an operation fails the
\* browser is never closed (the run does nothing after the failure)
C5_ClosedOnceOnSuccessOnly ==
    /\ [](/\ Cardinality(Issued("close")) <= 1
          /\ browser = "closed" <=> pc = "done"
          /\ pc = "done" =>
                /\ Issued("close") = {Len(hist)}
                /\ \A i \in DOMAIN hist : hist[i].ok
                /\ AllProcessed(1, Len(hist))
                /\ pens = Encountered
                /\ hist[Len(hist) - 1].op \in
                      {"save_index", "launch", "viewport"}
                /\ Cardinality(Done("save_index")) =
                      IF ~args.links.null THEN 1
                      ELSE IF args.startPage <= args.endPage
                      THEN args.endPage - args.startPage + 1
                      ELSE 0
          /\ (\E i \in DOMAIN hist : ~hist[i].ok) =>
                /\ pc = "failed"
                /\ browser # "closed"
                /\ Issued("close") = {})
    /\ [][pc \notin {"done", "failed"}]_vars

\* a run of two search pages, with a download and an index write on each,
\* ended with the browser closed
C5_Witness ==
    /\ pc = "done"
    /\ browser = "closed"
    /\ Cardinality(Done("save_index")) = 2
    /\ Cardinality(Done("write")) = 2
    /\ hist[Len(hist) - 1].op = "save_index"

\* the operation at place i of hist is a navigation, wait, screenshot, click
\* or evaluate step of a pen, and failed
FailedAtPen(i) == hist[i].op \in PenStepPc /\ ~hist[i].ok

\* C6: when a navigation, readiness wait, click or evaluate step fails for a
\* pen the run aborts there: nothing more is issued (no later pen is
\* navigated to), no pen file is written for the failing pen or a later one,
\* the index is not rewritten for the current page, and the pen files and the
\* index written before stay as they were
C6_AbortAtFailingPen ==
    /\ [](\A i \in DOMAIN hist :
            FailedAtPen(i) =>
                LET p == LastBefore("pen", i)
                    s == LastBefore("search_eval", i)
                IN  /\ i = Len(hist)
                    /\ pc = "failed"
                    /\ p > 0
                    /\ hist[p].pen = hist[i].pen
                    /\ \A j \in (p + 1)..i :
                          hist[j].op \notin {"write", "save_index", "pen"}
                    /\ \A j \in (s + 1)..i : hist[j].op # "save_index"
                    /\ PenFilename(hist[i].pen) \notin DOMAIN disk)
    /\ [][(hist' # hist /\ FailedAtPen(Len(hist))' ) => disk' = disk]_vars
    /\ [][pc # "failed"]_vars

\* the second pen of the second page failed at its fourth click, after a
\* download and an index write
C6_Witness ==
    /\ pc = "failed"
    /\ FailedAtPen(Len(hist))
    /\ Last(hist).op = ClickPc[4]
    /\ Last(hist).n = 2
    /\ page = args.startPage + 1
    /\ Cardinality(Done("write")) >= 1
    /\ Cardinality(Done("save_index")) = 1

-----------------------------------------------------------------------------
(* The pipeline: resuming (C4) *)

\* the pens of ps whose file was not in pensPath when this run started
RECURSIVE MissingAtStart(_)
MissingAtStart(ps) ==
    IF ps = <<>> THEN <<>>
    ELSE (IF PenFilename(Head(ps)) \in DOMAIN disk0 THEN <<>>
          ELSE <<Head(ps)>>) \o MissingAtStart(Tail(ps))

\* the pens of ps that are the first of their slug in ps
FirstOfSlug(ps) ==
    LET first == {i \in DOMAIN ps :
                     \A j \in 1..(i - 1) :
                         PenFilename(ps[j]) # PenFilename(ps[i])}
        F[i \in 0..Len(ps)] ==
            IF i = 0 THEN <<>>
            ELSE IF i \in first THEN Append(F[i - 1], ps[i]) ELSE F[i - 1]
    IN  F[Len(ps)]

IsPrefix(s, u) == Len(s) <= Len(u) /\ s = SubSeq(u, 1, Len(s))

\* the pens of the search pages of the run
SearchResults == PagePens(args.startPage, args.endPage)

\* the pens written by the run, in order
Written == PensOf("write", 1, Len(hist))

\* the files other than the index that were there when this run started are
\* as they were
OldPenFilesKept ==
    \A f \in DOMAIN disk0 \ {IndexFilename} :
        f \in DOMAIN disk /\ disk[f] = disk0[f]

\* the run before this one ended with every operation succeeding
PrevSucceeded == prev # <<>> /\ Last(prev).op = "close"

\* C4 as stated: a second run over the same search results navigates to and
\* extracts exactly the pens whose <slug>.html the run before did not leave
\* in pensPath, and changes no pen file that was there; after a fully
\* successful run it extracts nothing
C4_AsStated ==
    (runNo = 2 /\ pc = "done") =>
        /\ Range(Navigated) = Range(MissingAtStart(SearchResults))
        /\ Range(Written) = Range(MissingAtStart(SearchResults))
        /\ OldPenFilesKept
        /\ PrevSucceeded => Navigated = <<>>

\* the search results without the pens of slug 'index' of the pages after
\* the first one: when download() comes to these, the index write of the
\* page before has made index.html
Candidates ==
    PagePens(args.startPage, args.startPage)
    \o SelectSeq(PagePens(args.startPage + 1, args.endPage),
                 LAMBDA q : PenFilename(q) # IndexFilename)

\* C4 as amended: a second run navigates to and extracts, of the pens whose
\* <slug>.html was not in pensPath when it started, the first of each slug,
\* in the order met (all of them once it completes; these are all the
\* missing pens when the slugs are pairwise distinct and none is 'index');
\* a pen of slug 'index' is among them only on the first page.  It changes
\* no file other than index.html that was there, and after a fully
\* successful run it extracts nothing
C4_ResumeMissingOnly ==
    runNo = 2 =>
        LET todo == FirstOfSlug(MissingAtStart(Candidates))
        IN  /\ IsPrefix(Navigated, todo)
            /\ IsPrefix(Written, Navigated)
            /\ Len(Navigated) <= Len(Written) + 1
            /\ pc = "done" =>
                  /\ Navigated = todo
                  /\ Written = todo
                  /\ Encountered = SearchResults
            /\ (DistinctSlugs(SearchResults) /\ NoIndexSlug(SearchResults)) =>
                  todo = MissingAtStart(SearchResults)
            /\ OldPenFilesKept
            /\ PrevSucceeded => Navigated = <<>> /\ Written = <<>>

\* the first run wrote one pen and failed at the next; the second run skipped
\* the first pen, extracted the second and ended
C4_Witness ==
    /\ runNo = 2
    /\ pc = "done"
    /\ ~PrevSucceeded
    /\ Cardinality({i \in DOMAIN prev : prev[i].op = "write" /\ prev[i].ok}) = 1
    /\ Encountered = <<P3, P1>>
    /\ Navigated = <<P1>>
    /\ Written = <<P1>>
    /\ Cardinality(Done("skip")) = 1
    /\ PenFilename(P3) \in DOMAIN disk0

-----------------------------------------------------------------------------
(* The pipeline: the order of the browser operations of a pen (C12) *)

\* the operations of one extraction, in the order of download()
StepOrder ==
    <<"goto", "wait">> \o ClickPc \o <<"eval_content", "eval_resources", "write">>

\* the entries of hist from place a on that are not screenshots
RECURSIVE StepsFrom(_)
StepsFrom(a) ==
    IF a > Len(hist) THEN <<>>
    ELSE (IF hist[a].op \in {"shot_before", "shot_after"} THEN <<>>
          ELSE <<hist[a]>>) \o StepsFrom(a + 1)

\* the extraction that starts at place i of hist went through the
\* operations of StepOrder, one after the other, each on the same pen and
\* each but the last one of hist completed
InOrderFrom(i) ==
    LET steps == StepsFrom(i)
    IN  \A n \in 1..Len(StepOrder) :
            n <= Len(steps) =>
                /\ steps[n].op = StepOrder[n]
                /\ steps[n].pen = hist[i].pen
                /\ steps[n].n = hist[i].n
                /\ n > 1 => steps[n - 1].ok

\* C12: for every pen that is extracted the browser operations are issued in
\* the order navigate, wait for the result iframe, the six clicks (html
\* menu, compiled html, css menu, compiled css, js menu, compiled js), read
\* the editors, read the external resources, each only after the one before
\* it completed; the pen file is written after the last of them, and the
\* navigation to the next pen is issued only after that write
C12_StepOrder ==
    /\ \A i \in Issued("goto") :
          /\ InOrderFrom(i)
          /\ \A j \in Issued("goto") :
                j > i => \E w \in Done("write") :
                            /\ i < w
                            /\ w < j
                            /\ hist[w].pen = hist[i].pen
                            /\ hist[w].n = hist[i].n
    /\ \A w \in Issued("write") :
          \E i \in Done("goto") :
              /\ i < w
              /\ Len(SelectSeq(SubSeq(hist, i, w),
                               LAMBDA e : e.op \notin {"shot_before",
                                                       "shot_after"}))
                     = Len(StepOrder)
              /\ \A j \in i..w : hist[j].pen = hist[w].pen
    /\ \A i \in DOMAIN hist :
          hist[i].op \in PenStepPc \ {"goto"} =>
              /\ i > 1
              /\ hist[i - 1].ok
              /\ hist[i - 1].op \in PenStepPc
              /\ hist[i - 1].pen = hist[i].pen

\* two pens were extracted one after the other, the second after the write
\* of the first
C12_Witness ==
    /\ Cardinality(Done("write")) = 2
    /\ Last(hist).op = "write"
    /\ Last(hist).ok
    /\ Navigated = <<P3, P1>>
    /\ \E i \in Done("goto") :
          /\ hist[i].pen = P1
          /\ [n \in 1..Len(StepsFrom(i)) |-> StepsFrom(i)[n].op] = StepOrder

-----------------------------------------------------------------------------
(* The pipeline: the search pages (C13), direct links (C14) and nothing to  *)
(* do (C20)                                                                 *)

\* the page or position numbers of the entries op of hist, in order
RECURSIVE NumsOf(_, _)
NumsOf(op, a) ==
    IF a > Len(hist) THEN <<>>
    ELSE (IF hist[a].op = op THEN <<hist[a].n>> ELSE <<>>) \o NumsOf(op, a + 1)

\* startPage, startPage + 1, ... : n page numbers
PagesFrom(n) == [i \in 1..n |-> args.startPage + i - 1]

\* the number of pages of the closed range [startPage, endPage]
RangeSize ==
    IF args.startPage <= args.endPage
    THEN args.endPage - args.startPage + 1 ELSE 0

\* the place of the first entry op of hist after place i, Len(hist) + 1 if
\* there is none
FirstAfter(op, i) ==
    IF \E j \in (i + 1)..Len(hist) : hist[j].op = op
    THEN CHOOSE j \in (i + 1)..Len(hist) :
            /\ hist[j].op = op
            /\ \A h \in (i + 1)..(j - 1) : hist[h].op # op
    ELSE Len(hist) + 1

C14_DirectLinks ==
    ~args.links.null =>
        /\ Issued("search_goto") = {}
        /\ Issued("search_eval") = {}
        /\ IsPrefix(Encountered, args.links.items)
        /\ Cardinality(Issued("save_index")) <= 1
        /\ \A x \in Issued("save_index") :
              /\ PensOf("pen", 1, x) = args.links.items
              /\ AllProcessed(1, x)
              /\ \A i \in (x + 1)..Len(hist) : hist[i].op = "close"
        /\ pc = "done" =>
              /\ Cardinality(Done("save_index")) = 1
              /\ Encountered = args.links.items
              /\ IndexAnchors = AnchorsOf(args.links.items)

\* a run with three links and a page range that is not empty ended
C14_Witness ==
    /\ pc = "done"
    /\ ~args.links.null
    /\ args.startPage <= args.endPage
    /\ args.links.items = <<P3, P1, P2>>
    /\ Cardinality(Done("save_index")) = 1
    /\ Cardinality(Done("write")) >= 2

\* C20: in pagination mode with startPage > endPage the run issues no search
\* and no pen navigation, writes no pen file and does not write the index
\* file, and closes the browser session once (the close is its last step
\* and the one that follows the browser's start); in direct mode with an
\* empty list of links the index is written with an empty list
C20_NothingToDo ==
    /\ (args.links.null /\ args.startPage > args.endPage) =>
          /\ \A i \in DOMAIN hist :
                hist[i].op \in {"setup", "launch", "viewport", "close"}
          /\ disk = disk0
          /\ pc = "close" =>
                /\ \A i \in DOMAIN hist : hist[i].ok
                /\ Issued("close") = {}
          /\ pc = "done" =>
                /\ Issued("close") = {Len(hist)}
                /\ browser = "closed"
          /\ pc \in {"route", "for"} => \A i \in DOMAIN hist : hist[i].ok
    /\ (~args.links.null /\ args.links.items = <<>>) =>
          /\ \A i \in DOMAIN hist :
                hist[i].op \in {"setup", "launch", "viewport", "save_index",
                                "close"}
          /\ \A f \in DOMAIN disk0 \ {IndexFilename} :
                f \in DOMAIN disk /\ disk[f] = disk0[f]
          /\ DOMAIN disk \subseteq DOMAIN disk0 \cup {IndexFilename}
          /\ pc \in {"close", "done"} =>
                /\ Cardinality(Done("save_index")) = 1
                /\ IndexAnchors = <<>>
                /\ disk[IndexFilename]
                      = SelectSeq(args.indexTemplate,
                                  LAMBDA x : x # "{{list}}")

\* a run over an empty page range ended on a pensPath with an earlier index
C20_Witness ==
    /\ pc = "done"
    /\ args.links.null
    /\ args.startPage > args.endPage
    /\ browser = "closed"
    /\ IndexFilename \in DOMAIN disk0
    /\ disk[IndexFilename] = OldIndex

\* a run with an empty list of links ended, the earlier index replaced
C20_WitnessNoLinks ==
    /\ pc = "done"
    /\ ~args.links.null
    /\ args.links.items = <<>>
    /\ IndexFilename \in DOMAIN disk0
    /\ disk[IndexFilename] # OldIndex

-----------------------------------------------------------------------------
(* The pipeline: the pen files (C15, C16) and the links of the index (C19) *)

\* the places of hist where file f was written: by download() for a pen of
\* that filename, or by saveIndex() for index.html
WritesTo(f) ==
    {i \in DOMAIN hist :
        /\ hist[i].ok
        /\ \/ hist[i].op = "write" /\ PenFilename(hist[i].pen) = f
           \/ hist[i].op = "save_index" /\ f = IndexFilename}

\* the files <slug>.html of the pens met so far
PenFilesMet == {PenFilename(Encountered[i]) : i \in DOMAIN Encountered}

\* C15: a pen file is write-once: within a run no <slug>.html is written
\* more than once and no <slug>.html that exists is overwritten, also when
\* two different pens of the run have the same slug
C15_AsStated ==
    /\ \A w \in Done("write") :
          LET f == PenFilename(hist[w].pen)
          IN  /\ ~ExistedAt(f, w)
              /\ WritesTo(f) = {w}
    /\ \A f \in (DOMAIN disk0 \ {IndexFilename}) \cap PenFilesMet :
          WritesTo(f) = {}

\* all extraction steps (navigation, wait, the six clicks, both reads)
\* completed for a pen with filename f
Extracted(f) ==
    \E i \in Done("goto") :
        /\ PenFilename(hist[i].pen) = f
        /\ Len(StepsFrom(i)) >= Len(StepOrder) - 1
        /\ \A n \in 1..(Len(StepOrder) - 1) :
              /\ StepsFrom(i)[n].op = StepOrder[n]
              /\ StepsFrom(i)[n].ok
              /\ StepsFrom(i)[n].pen = hist[i].pen

\* C16: the file <slug>.html of a pen is in pensPath only if it was there
\* before the run or all extraction steps completed for a pen with that
\* slug; a pen whose extraction failed part-way leaves no file
C16_AsStated ==
    /\ \A f \in PenFilesMet :
          f \in DOMAIN disk => f \in DOMAIN disk0 \/ Extracted(f)
    /\ \A i \in DOMAIN hist :
          FailedAtPen(i) => PenFilename(hist[i].pen) \notin DOMAIN disk

\* the place in hist of the n-th pen met
PlaceOfPen(n) ==
    CHOOSE i \in Issued("pen") : Cardinality({h \in Issued("pen") : h <= i}) = n

\* C19: the index file written by the run has no dangling link: for every
\* anchor it lists the file <slug>.html the anchor points to is in pensPath,
\* from the write of the index on, and the slug of the n-th anchor is the one
\* of the file name that download() tested, and wrote if it was not there,
\* for the n-th pen
C19_NoDanglingLinks ==
    Done("save_index") # {} =>
        \A n \in DOMAIN IndexAnchors :
            LET f == IndexAnchors[n].slug \o HtmlExt
            IN  /\ f \in DOMAIN disk
                /\ n <= Len(Encountered)
                /\ LET i == PlaceOfPen(n)
                   IN  /\ i < Len(hist)
                       /\ \/ /\ hist[i + 1].op = "skip"
                             /\ ExistedAt(f, i)
                          \/ /\ hist[i + 1].op = "goto"
                             /\ ~ExistedAt(f, i)
                             /\ \E w \in Done("write") :
                                   /\ w > i
                                   /\ hist[w].pen = hist[i].pen
                                   /\ hist[w].n = hist[i].n
                                   /\ PenFilename(hist[w].pen) = f
                                   /\ \A h \in (i + 1)..w : hist[h].op # "pen"

\* an index of three anchors was written, for a pen downloaded, a pen
\* skipped for the file of the first and a pen skipped for an earlier file
C19_Witness ==
    /\ IndexJustWritten
    /\ Encountered = <<P1, P2, P3>>
    /\ Navigated = <<P1>>
    /\ Len(IndexAnchors) = 3
    /\ IndexAnchors[1].slug = <<"a", "b">>
    /\ IndexAnchors[2].slug = <<"a", "b">>
    /\ IndexAnchors[3].slug = <<"c", "-", "d">>

-----------------------------------------------------------------------------
(* The rendered pen: missing editors (C17) *)

Tokens ==
    {"{{html}}", "{{title}}", "{{url}}", "{{style}}", "{{javascript}}",
     "{{resources.javascript}}", "{{resources.style}}"}

\* the text of editor n of cont, empty when there is no such editor
EditorText(cont, n) == IF n \in DOMAIN cont THEN cont[n] ELSE <<>>

\* the value that stands for a token
ValueOf(token, pen, cont, res) ==
    CASE token = "{{html}}" -> EditorText(cont, 1)
      [] token = "{{style}}" -> EditorText(cont, 2)
      [] token = "{{javascript}}" -> EditorText(cont, 3)
      [] token = "{{title}}" -> RefTrim(pen.title)
      [] token = "{{url}}" -> pen.url
      [] token = "{{resources.javascript}}" ->
            MapJoin(res.javascript, ScriptOpen, ScriptClose, NewLine)
      [] token = "{{resources.style}}" ->
            MapJoin(res.css, LinkOpen, LinkClose, NewLine)

\* the fully substituted document: every token of the template replaced by
\* its value, the values and the rest of the template taken as they are
RECURSIVE Fill(_, _, _, _)
Fill(template, pen, cont, res) ==
    IF template = <<>> THEN <<>>
    ELSE (IF Head(template) \in Tokens
          THEN ValueOf(Head(template), pen, cont, res)
          ELSE <<Head(template)>>)
         \o Fill(Tail(template), pen, cont, res)

\* the slots 1..3 for which the page of the pen has no editor or an empty one
EmptySlots(pen) ==
    {n \in 1..3 :
        n \notin DOMAIN PenPage(pen).editors \/ PenPage(pen).editors[n] = <<>>}

\* a pen file was written by the last step
PenJustWritten ==
    hist # <<>> /\ Last(hist).op = "write" /\ Last(hist).ok

\* C17: when the page of a pen has fewer than three editors, or an editor's
\* text is empty, the token of each missing or empty slot is replaced by the
\* empty string, not by a marker such as "undefined" or "null", and the pen
\* is rendered and written as any other
C17_MissingEditors ==
    /\ PenJustWritten =>
          LET pen == Last(hist).pen
              doc == disk[PenFilename(pen)]
          IN  /\ doc = Fill(args.penTemplate, pen, PenPage(pen).editors,
                            resources)
              /\ \A i \in DOMAIN doc :
                    doc[i] \notin {"undefined", "null", "{{html}}",
                                   "{{style}}", "{{javascript}}"}
              /\ 2 \in EmptySlots(pen) =>
                    \E i \in DOMAIN doc :
                        /\ doc[i] = "<style>"
                        /\ doc[i + 1] = "</style></head><body>"
              /\ 3 \in EmptySlots(pen) =>
                    \E i \in DOMAIN doc :
                        /\ doc[i] = "<script>"
                        /\ doc[i + 1] = "</script></body></html>"
    /\ (pc = "write" /\ EmptySlots(links.items[k]) # {}) =>
          /\ content = PenPage(links.items[k]).editors
          /\ \A i \in DOMAIN hist : hist[i].ok

\* the pens without editors, with one editor and with an empty css editor
\* were written
C17_Witness ==
    /\ PenJustWritten
    /\ Last(hist).pen = P3
    /\ EmptySlots(P3) = {2}
    /\ EmptySlots(P2) = {2, 3}
    /\ EmptySlots(P7) = {1, 2, 3}
    /\ Written = <<P7, P2, P3>>

-----------------------------------------------------------------------------
(* The rendered pen: empty content (C11) and full substitution (C18) *)

\* s stands in doc, in one piece
Contains(doc, s) ==
    \/ s = <<>>
    \/ \E i \in 1..(Len(doc) - Len(s) + 1) : SubSeq(doc, i, i + Len(s) - 1) = s

\* place i of doc is inside a piece of doc that is s
Inside(doc, i, s) ==
    \E a \in 1..i :
        /\ a + Len(s) - 1 >= i
        /\ a + Len(s) - 1 <= Len(doc)
        /\ SubSeq(doc, a, a + Len(s) - 1) = s

\* C11: for every pen (any title, any url) and a pen template with each of
\* the seven tokens, rendering with no markup, style and script and with
\* both resource lists empty gives a document that holds the title and the
\* url verbatim and no token (none but one that is text of the title or of
\* the url)
C11_AsStated ==
    (/\ fnPc = "rendered"
     /\ \A i \in DOMAIN fnIn.editors : fnIn.editors[i] = <<>>
     /\ fnOut[1] = NoResources) =>
        LET doc == fnOut[2]
            title == RefTrim(fnIn.pen.title)
            url == fnIn.pen.url
        IN  /\ Contains(doc, title)
            /\ Contains(doc, url)
            /\ \A i \in DOMAIN doc :
                  doc[i] \in Tokens =>
                      Inside(doc, i, title) \/ Inside(doc, i, url)

\* C18: rendering gives a fully substituted document: for any pen template
\* and any content every occurrence of each of the seven tokens of the
\* template is replaced by its value, and the values stand in the document
\* verbatim (text of a value that looks like a token is not substituted)
C18_AsStated ==
    fnPc = "rendered" =>
        fnOut[2] = Fill(fnIn.penTemplate, fnIn.pen, fnIn.editors, fnOut[1])

=============================================================================
